---------------------------- MODULE Spec2Model ----------------------------
(***************************************************************************)
(* Model of src/salesforce_utils.py: the four helper operations            *)
(* connect_to_salesforce, create_permission_set, set_field_permissions and *)
(* create_edit_permission_set, together with the remote collaborator they  *)
(* call (the authenticator and the create endpoint) and the module logger. *)
(*                                                                         *)
(* Python strings are TLA+ strings; the f-string formatting of names,      *)
(* labels, descriptions and messages is concatenation (\o), and "contains" *)
(* is computed on the characters (SubSeq).                                 *)
(***************************************************************************)
EXTENDS Integers, Sequences, FiniteSets, TLC

(***************************************************************************)
(* Bounds of the model.                                                    *)
(***************************************************************************)
MaxFields ==
    3

MaxRemote ==
    2

(***************************************************************************)
(* Python values.                                                          *)
(***************************************************************************)
None ==
    [t |-> "None", v |-> ""]

PyStrValue(s) ==
    [t |-> "str", v |-> s]

SessionOf(username) ==
    [t |-> "Salesforce", v |-> username]

NoExc ==
    [type |-> "none", msg |-> ""]

Exc(type, msg) ==
    [type |-> type, msg |-> msg]

\* str(e) of an exception built from one message argument
StrExc(e) ==
    e.msg

\* str(n) of a non-negative integer
Digit(d) ==
    CASE d = 0 -> "0" [] d = 1 -> "1" [] d = 2 -> "2" [] d = 3 -> "3"
      [] d = 4 -> "4" [] d = 5 -> "5" [] d = 6 -> "6" [] d = 7 -> "7"
      [] d = 8 -> "8" [] OTHER -> "9"

RECURSIVE StrInt(_)
StrInt(n) ==
    IF n < 10 THEN Digit(n) ELSE StrInt(n \div 10) \o Digit(n % 10)

\* repr of a string: the text in single quotes
ReprStr(s) ==
    "'" \o s \o "'"

\* str(list of strings): "[" + ", ".join(repr(x)) + "]"
RECURSIVE JoinRepr(_)
JoinRepr(xs) ==
    IF xs = <<>> THEN ""
    ELSE IF Len(xs) = 1 THEN ReprStr(xs[1])
    ELSE ReprStr(xs[1]) \o ", " \o JoinRepr(Tail(xs))

StrList(xs) ==
    "[" \o JoinRepr(xs) \o "]"

\* Python's "sub in s" for strings
Contains(s, sub) ==
    \E k \in 0..(Len(s) - Len(sub)) : SubSeq(s, k + 1, k + Len(sub)) = sub

(***************************************************************************)
(* Log entries of the module logger.                                       *)
(***************************************************************************)
LogInfo(msg) ==
    [level |-> "info", msg |-> msg]

LogDebug(msg) ==
    [level |-> "debug", msg |-> msg]

LogError(msg) ==
    [level |-> "error", msg |-> msg]

(***************************************************************************)
(* Inputs the callers pass and answers the remote side gives.              *)
(***************************************************************************)
ObjectNames ==
    {"Account", "Contact"}

RecordTypes ==
    {"edit", "basic"}

FieldNames ==
    {"Email", "Phone"}

AccessLevels ==
    {"read", "edit", "bogus"}

PermissionSetIds ==
    {"0PS1", "0PS2"}

Usernames ==
    {"alice", "bob"}

Domains ==
    {"login", "test"}

FieldLists ==
    UNION {[1..n -> FieldNames] : n \in 0..MaxFields}

\* answers of sf.<Type>.create: a payload, or an exception of the client
Result(success, id, errors) ==
    [kind |-> "result", success |-> success, id |-> id, errors |-> errors,
     exc |-> NoExc]

Raised(e) ==
    [kind |-> "raise", success |-> FALSE, id |-> None, errors |-> <<>>,
     exc |-> e]

CreateResponses ==
    {Result(TRUE, PyStrValue("0PS1"), <<>>),
     Result(TRUE, PyStrValue("0PS2"), <<>>),
     Result(FALSE, None, <<"DUP">>),
     Result(FALSE, None, <<"DUP", "LIMIT">>),
     Raised(Exc("SalesforceError", "timeout"))}

FieldResponses ==
    {Result(TRUE, PyStrValue("0PS2"), <<>>),
     Result(FALSE, None, <<"DUP">>),
     Raised(Exc("SalesforceError", "timeout"))}

\* answers of the authenticator Salesforce(...)
AuthSession(s) ==
    [kind |-> "session", session |-> s, exc |-> NoExc]

AuthRaised(e) ==
    [kind |-> "raise", session |-> None, exc |-> e]

AuthResponses(username) ==
    {AuthSession(SessionOf(username)),
     AuthRaised(Exc("SalesforceAuthenticationFailed", "denied")),
     AuthRaised(Exc("ConnectionError", "timeout"))}

\* a call that reached the remote collaborator, with the answer it got
RemoteCall(verb, type, data, resp) ==
    [verb |-> verb, type |-> type, data |-> data, resp |-> resp]

\* what an operation gives back to its caller
Returned(value) ==
    [kind |-> "return", value |-> value, exc |-> NoExc]

Propagated(e) ==
    [kind |-> "raise", value |-> None, exc |-> e]

Running ==
    [kind |-> "running", value |-> None, exc |-> NoExc]

NotCalled ==
    [kind |-> "none", value |-> None, exc |-> NoExc]

\* result of running a whole operation: calls issued, log written, outcome
Done(cs, lg, out) ==
    [calls |-> cs, log |-> lg, outcome |-> out]

(***************************************************************************)
(* connect_to_salesforce                                                   *)
(***************************************************************************)
Credentials(username, password, security_token, domain) ==
    [username |-> username, password |-> password,
     security_token |-> security_token, domain |-> domain]

\* variant: a failed attempt is followed by a second attempt (a retry)
connect_to_salesforce_retry(username, password, security_token, domain, auth) ==
    LET attempt == RemoteCall("authenticate", "Salesforce",
                       Credentials(username, password, security_token, domain),
                       auth)
        entry   == LogInfo("Connecting to Salesforce with user " \o username)
    IN  IF auth.kind = "session"
        THEN Done(<<attempt>>, <<entry, LogInfo("Successfully connected to Salesforce")>>,
                  Returned(auth.session))
        ELSE Done(<<attempt, attempt>>,
                  <<entry, LogError("Error connecting to Salesforce: "
                          \o StrExc(auth.exc))>>,
                  Propagated(auth.exc))

\* variant: the except clause re-raises without writing the error entry
connect_to_salesforce_silent(username, password, security_token, domain, auth) ==
    LET attempt == RemoteCall("authenticate", "Salesforce",
                       Credentials(username, password, security_token, domain),
                       auth)
        entry   == LogInfo("Connecting to Salesforce with user " \o username)
    IN  IF auth.kind = "session"
        THEN Done(<<attempt>>, <<entry, LogInfo("Successfully connected to Salesforce")>>,
                  Returned(auth.session))
        ELSE Done(<<attempt>>, <<entry>>, Propagated(auth.exc))

connect_to_salesforce(username, password, security_token, domain, auth) ==
    LET attempt == RemoteCall("authenticate", "Salesforce",
                       Credentials(username, password, security_token, domain),
                       auth)
        entry   == LogInfo("Connecting to Salesforce with user " \o username)
    IN  IF auth.kind = "session"
        THEN Done(<<attempt>>, <<entry, LogInfo("Successfully connected to Salesforce")>>,
                  Returned(auth.session))
        ELSE Done(<<attempt>>,
                  <<entry, LogError("Error connecting to Salesforce: "
                          \o StrExc(auth.exc))>>,
                  Propagated(auth.exc))

(***************************************************************************)
(* create_permission_set                                                   *)
(***************************************************************************)
\* variant: the name is built with the separators of the label
PermissionSetName_spaces(object_name, record_type) ==
    object_name \o " " \o record_type \o " Permissions"

PermissionSetName(object_name, record_type) ==
    object_name \o "_" \o record_type \o "_Permissions"

PermissionSetPayload(object_name, record_type) ==
    [Name |-> PermissionSetName(object_name, record_type),
     Label |-> object_name \o " " \o record_type \o " Permissions",
     Description |-> "Permission set for " \o object_name
             \o " with record type "
                         \o record_type]

\* variant: the success flag of the payload is not looked at
create_permission_set_unchecked(object_name, record_type, resp) ==
    LET permission_set_name == PermissionSetName(object_name, record_type)
        call    == RemoteCall("create", "PermissionSet",
                       PermissionSetPayload(object_name, record_type), resp)
        entry   == LogInfo("Creating permission set " \o permission_set_name)
    IN  IF resp.kind = "raise"
        THEN Done(<<call>>,
                  <<entry, LogError("Error creating permission set: "
                          \o StrExc(resp.exc))>>,
                  Propagated(resp.exc))
        ELSE Done(<<call>>,
                  <<entry, LogInfo("Permission set " \o permission_set_name
                                       \o " successfully created")>>,
                  Returned(resp.id))

create_permission_set(object_name, record_type, resp) ==
    LET permission_set_name == PermissionSetName(object_name, record_type)
        call    == RemoteCall("create", "PermissionSet",
                       PermissionSetPayload(object_name, record_type), resp)
        entry   == LogInfo("Creating permission set " \o permission_set_name)
        failure == Exc("Exception", "Failed to create permission set: "
                \o StrList(resp.errors))
    IN  IF resp.kind = "raise"
        THEN Done(<<call>>,
                  <<entry, LogError("Error creating permission set: "
                          \o StrExc(resp.exc))>>,
                  Propagated(resp.exc))
        ELSE IF resp.success
        THEN Done(<<call>>,
                  <<entry, LogInfo("Permission set " \o permission_set_name
                                       \o " successfully created")>>,
                  Returned(resp.id))
        ELSE Done(<<call>>,
                  <<entry, LogError("Error creating permission set: "
                          \o StrExc(failure))>>,
                  Propagated(failure))

(***************************************************************************)
(* create_edit_permission_set                                              *)
(***************************************************************************)
\* variant: the fixed record type is "basic"
create_edit_permission_set_basic(object_name, resp) ==
    create_permission_set(object_name, "basic", resp)

create_edit_permission_set(object_name, resp) ==
    create_permission_set(object_name, "edit", resp)

(***************************************************************************)
(* set_field_permissions                                                   *)
(***************************************************************************)
\* variant: no validation of access_level
ValidAccessLevel_any(access_level) ==
    TRUE

ValidAccessLevel(access_level) ==
    access_level \in {"read", "edit"}

\* variant: the field name is not qualified by the object name
FieldPermission_unqualified(object_name, field, access_level, permission_set_name) ==
    [Field |-> field,
     PermissionsRead |-> IF access_level \in {"read", "edit"} THEN TRUE ELSE FALSE,
     PermissionsEdit |-> IF access_level = "edit" THEN TRUE ELSE FALSE,
     ParentId |-> permission_set_name]

\* variant: the read flag is set for "read" only
FieldPermission_read_flag(object_name, field, access_level, permission_set_name) ==
    [Field |-> object_name \o "." \o field,
     PermissionsRead |-> IF access_level = "read" THEN TRUE ELSE FALSE,
     PermissionsEdit |-> IF access_level = "edit" THEN TRUE ELSE FALSE,
     ParentId |-> permission_set_name]

FieldPermission(object_name, field, access_level, permission_set_name) ==
    [Field |-> object_name \o "." \o field,
     PermissionsRead |-> IF access_level \in {"read", "edit"} THEN TRUE ELSE FALSE,
     PermissionsEdit |-> IF access_level = "edit" THEN TRUE ELSE FALSE,
     ParentId |-> permission_set_name]

FieldArgs(permission_set_name, object_name, fields, access_level) ==
    [permission_set_name |-> permission_set_name, object_name |-> object_name,
     fields |-> fields, access_level |-> access_level]

\* control state of a set_field_permissions call: where it is, what it has
\* issued and logged so far, and what it gave back once it has ended
Frame(p, k, cs, lg, out) ==
    [pc |-> p, i |-> k, calls |-> cs, log |-> lg, outcome |-> out]

\* from the call up to the first remote call (or to the end, when there is
\* none): the validation, the entry log and the empty loop
set_field_permissions_begin(args) ==
    LET entry == LogInfo("Setting permissions for " \o StrInt(Len(args.fields))
                             \o " fields in object " \o args.object_name)
    IN  IF ~ValidAccessLevel(args.access_level)
        THEN Frame("returned", 0, <<>>, <<>>,
                   Propagated(Exc("ValueError", "access_level must be either 'read' or 'edit'")))
        ELSE IF args.fields = <<>>
        THEN Frame("returned", 0, <<>>, <<entry, LogInfo("Permissions for all fields successfully set")>>,
                   Returned(None))
        ELSE Frame("loop", 1, <<>>, <<entry>>, Running)

\* variant: a payload with success false does not end the loop
set_field_permissions_iter_continue(args, k, cs, lg, resp) ==
    LET field   == args.fields[k]
        call    == RemoteCall("create", "FieldPermissions",
                       FieldPermission(args.object_name, field,
                           args.access_level, args.permission_set_name),
                       resp)
        done    == LogDebug("Permissions for field " \o field
                \o " successfully set")
    IN  IF resp.kind = "raise"
        THEN Frame("returned", 0, Append(cs, call),
                   Append(lg, LogError("Error setting permissions: "
                           \o StrExc(resp.exc))),
                   Propagated(resp.exc))
        ELSE IF k = Len(args.fields)
        THEN Frame("returned", 0, Append(cs, call),
                   lg
                           \o <<done, LogInfo("Permissions for all fields successfully set")>>,
                   Returned(None))
        ELSE Frame("loop", k + 1, Append(cs, call), Append(lg, done), Running)

\* one iteration of the loop over the fields: the create call for field i,
\* the answer resp, and what follows it up to the next remote call
set_field_permissions_iter(args, k, cs, lg, resp) ==
    LET field   == args.fields[k]
        call    == RemoteCall("create", "FieldPermissions",
                       FieldPermission(args.object_name, field,
                           args.access_level, args.permission_set_name),
                       resp)
        failure == Exc("Exception", "Failed to set permissions for field "
                \o field \o ": "
                                        \o StrList(resp.errors))
        done    == LogDebug("Permissions for field " \o field
                \o " successfully set")
    IN  IF resp.kind = "raise"
        THEN Frame("returned", 0, Append(cs, call),
                   Append(lg, LogError("Error setting permissions: "
                           \o StrExc(resp.exc))),
                   Propagated(resp.exc))
        ELSE IF ~resp.success
        THEN Frame("returned", 0, Append(cs, call),
                   Append(lg, LogError("Error setting permissions: "
                           \o StrExc(failure))),
                   Propagated(failure))
        ELSE IF k = Len(args.fields)
        THEN Frame("returned", 0, Append(cs, call),
                   lg
                           \o <<done, LogInfo("Permissions for all fields successfully set")>>,
                   Returned(None))
        ELSE Frame("loop", k + 1, Append(cs, call), Append(lg, done), Running)

(***************************************************************************)
(* The state machine: a caller invoking the operations one after another.  *)
(***************************************************************************)
VARIABLES
    pc,       \* "ready": the caller is about to call an operation;
              \* "loop": inside the field loop of set_field_permissions;
              \* "returned": the operation has returned or raised
    op,       \* the operation called (name and arguments)
    i,        \* inside the loop: index of the field whose call comes next
    calls,    \* remote calls issued by the operation op so far, in order
    log,      \* log entries written by the operation op so far, in order
    outcome,  \* what the operation op gave back to its caller
    remote    \* PermissionSet payloads the remote side has received, in order

vars ==
    <<pc, op, i, calls, log, outcome, remote>>

Invocation(name, args) ==
    [name |-> name, args |-> args]

Init ==
    /\ pc = "ready"
    /\ op = Invocation("none", <<>>)
    /\ i = 0
    /\ calls = <<>>
    /\ log = <<>>
    /\ outcome = NotCalled
    /\ remote = <<>>

Connect ==
    /\ pc = "ready"
    /\ \E username \in Usernames, domain \in Domains :
         \E auth \in AuthResponses(username) :
           LET r == connect_to_salesforce(username, "pw", "tok", domain, auth)
           IN  /\ op' = Invocation("connect_to_salesforce",
                            Credentials(username, "pw", "tok", domain))
               /\ calls' = r.calls
               /\ log' = r.log
               /\ outcome' = r.outcome
    /\ pc' = "returned"
    /\ UNCHANGED <<i, remote>>

\* variant: a name the remote side has already received is refused locally
CreatePermissionSet_dedup ==
    /\ pc = "ready"
    /\ Len(remote) < MaxRemote
    /\ \E object_name \in ObjectNames, record_type \in RecordTypes,
          resp \in CreateResponses :
         LET r    == create_permission_set(object_name, record_type, resp)
             seen == \E n \in 1..Len(remote) :
                        remote[n].Name
                            = PermissionSetName(object_name, record_type)
             dup  == Exc("Exception", "Failed to create permission set: "
                     \o StrList(<<"DUP">>))
         IN  /\ op' = Invocation("create_permission_set",
                          [object_name |-> object_name,
                           record_type |-> record_type])
             /\ calls' = IF seen THEN <<>> ELSE r.calls
             /\ log' = IF seen THEN <<LogError("Error creating permission set: " \o StrExc(dup))>>
                       ELSE r.log
             /\ outcome' = IF seen THEN Propagated(dup) ELSE r.outcome
             /\ remote' = IF seen THEN remote
                          ELSE remote
                                  \o [n \in 1..Len(r.calls) |-> r.calls[n].data]
    /\ pc' = "returned"
    /\ UNCHANGED i

CreatePermissionSet ==
    /\ pc = "ready"
    /\ Len(remote) < MaxRemote
    /\ \E object_name \in ObjectNames, record_type \in RecordTypes,
          resp \in CreateResponses :
         LET r == create_permission_set(object_name, record_type, resp)
         IN  /\ op' = Invocation("create_permission_set",
                          [object_name |-> object_name,
                           record_type |-> record_type])
             /\ calls' = r.calls
             /\ log' = r.log
             /\ outcome' = r.outcome
             /\ remote' = remote \o [n \in 1..Len(r.calls) |-> r.calls[n].data]
    /\ pc' = "returned"
    /\ UNCHANGED i

CreateEditPermissionSet ==
    /\ pc = "ready"
    /\ Len(remote) < MaxRemote
    /\ \E object_name \in ObjectNames, resp \in CreateResponses :
         LET r == create_edit_permission_set(object_name, resp)
         IN  /\ op' = Invocation("create_edit_permission_set",
                          [object_name |-> object_name])
             /\ calls' = r.calls
             /\ log' = r.log
             /\ outcome' = r.outcome
             /\ remote' = remote \o [n \in 1..Len(r.calls) |-> r.calls[n].data]
    /\ pc' = "returned"
    /\ UNCHANGED i

SetFieldPermissions ==
    /\ pc = "ready"
    /\ \E permission_set_name \in PermissionSetIds, object_name \in ObjectNames,
          fields \in FieldLists, access_level \in AccessLevels :
         LET args == FieldArgs(permission_set_name, object_name, fields,
                               access_level)
             f    == set_field_permissions_begin(args)
         IN  /\ op' = Invocation("set_field_permissions", args)
             /\ pc' = f.pc
             /\ i' = f.i
             /\ calls' = f.calls
             /\ log' = f.log
             /\ outcome' = f.outcome
    /\ UNCHANGED remote

FieldCreate ==
    /\ pc = "loop"
    /\ \E resp \in FieldResponses :
         LET f == set_field_permissions_iter(op.args, i, calls, log, resp)
         IN  /\ pc' = f.pc
             /\ i' = f.i
             /\ calls' = f.calls
             /\ log' = f.log
             /\ outcome' = f.outcome
    /\ UNCHANGED <<op, remote>>

\* the operation has returned or raised: the caller has the outcome and is
\* free to call the next operation, which starts with a record of its own
ReturnToCaller ==
    /\ pc = "returned"
    /\ pc' = "ready"
    /\ op' = Invocation("none", <<>>)
    /\ i' = 0
    /\ calls' = <<>>
    /\ log' = <<>>
    /\ outcome' = NotCalled
    /\ UNCHANGED remote

Next ==
    \/ Connect
    \/ CreatePermissionSet
    \/ CreateEditPermissionSet
    \/ SetFieldPermissions
    \/ FieldCreate
    \/ ReturnToCaller

Spec ==
    Init /\ [][Next]_vars

(***************************************************************************)
(* Vocabulary of the properties.                                           *)
(***************************************************************************)
IsSetFieldPermissions ==
    op.name = "set_field_permissions"

IsCreatePermissionSet ==
    op.name = "create_permission_set"

\* the remote answer is a failure: the call raised, or reported success false
Failed(resp) ==
    resp.kind = "raise" \/ ~resp.success

NumErrorEntries ==
    Cardinality({n \in 1..Len(log) : log[n].level = "error"})

\* the call ended on the access_level validation of set_field_permissions
IsValidationError ==
    /\ IsSetFieldPermissions
    /\ outcome.kind = "raise"
    /\ ~(op.args.access_level \in {"read", "edit"})

(***************************************************************************)
(* C1. With a valid access_level, set_field_permissions issues create      *)
(* calls for exactly the fields up to and including the first one whose    *)
(* call fails (success false, or an exception), in list order; it then     *)
(* raises, issues no call for a later field, and issues no delete or       *)
(* rollback call for the fields already created.                           *)
(***************************************************************************)
C1_StopsAtFirstFailure ==
    (IsSetFieldPermissions /\ op.args.access_level \in {"read", "edit"}) =>
        /\ Len(calls) <= Len(op.args.fields)
        /\ \A k \in 1..Len(calls) :
             /\ calls[k].verb = "create"
             /\ calls[k].type = "FieldPermissions"
             /\ calls[k].data.Field
                    = op.args.object_name \o "." \o op.args.fields[k]
             /\ (k < Len(calls) => ~Failed(calls[k].resp))
        /\ (Len(calls) > 0 /\ Failed(calls[Len(calls)].resp)) =>
             /\ pc = "returned"
             /\ outcome.kind = "raise"
        /\ outcome.kind = "raise" =>
             /\ Len(calls) > 0
             /\ Failed(calls[Len(calls)].resp)
        /\ pc = "loop" => (i = Len(calls) + 1 /\ outcome.kind = "running")

C1_Witness ==
    /\ IsSetFieldPermissions
    /\ Len(op.args.fields) = 3
    /\ Len(calls) = 2
    /\ ~Failed(calls[1].resp)
    /\ Failed(calls[2].resp)
    /\ outcome.kind = "raise"
    /\ pc = "returned"

(***************************************************************************)
(* C2. set_field_permissions called with an access_level that is neither   *)
(* "read" nor "edit" raises a validation error and performs no remote      *)
(* call, whatever the field list.                                          *)
(***************************************************************************)
C2_InvalidLevelFailsFast ==
    (IsSetFieldPermissions /\ ~(op.args.access_level \in {"read", "edit"})) =>
        /\ pc = "returned"
        /\ outcome.kind = "raise"
        /\ outcome.exc.type = "ValueError"
        /\ calls = <<>>

C2_Witness ==
    /\ IsSetFieldPermissions
    /\ op.args.access_level = "bogus"
    /\ Len(op.args.fields) = 2
    /\ outcome.kind = "raise"
    /\ calls = <<>>

(***************************************************************************)
(* C3 (as stated). Every failure of any of the four operations is logged   *)
(* exactly once at error level before it propagates to the caller.         *)
(***************************************************************************)
C3_EveryFailureLoggedOnce ==
    outcome.kind = "raise" =>
        /\ NumErrorEntries = 1
        /\ log[Len(log)].level = "error"

(***************************************************************************)
(* C3 (amended). Every failure of the four operations other than the       *)
(* access_level validation error is logged exactly once at error level,    *)
(* as the last entry before it propagates, with the text of the error; the *)
(* validation error of set_field_permissions propagates with no log entry  *)
(* at all; and no error entry is written by a call that does not fail.     *)
(***************************************************************************)
C3_FailureLoggedOnceExceptValidation ==
    /\ (outcome.kind = "raise" /\ ~IsValidationError) =>
         /\ NumErrorEntries = 1
         /\ log[Len(log)].level = "error"
         /\ Contains(log[Len(log)].msg, outcome.exc.msg)
    /\ IsValidationError => log = <<>>
    /\ outcome.kind # "raise" => NumErrorEntries = 0

C3_Witness ==
    /\ op.name = "create_edit_permission_set"
    /\ outcome.kind = "raise"
    /\ calls[1].resp.kind = "result"
    /\ NumErrorEntries = 1

(***************************************************************************)
(* C4. When every remote create call reports success,                      *)
(* set_field_permissions issues exactly len(fields) FieldPermissions       *)
(* create calls, the i-th with Field = "{object}.{fields[i]}" and          *)
(* ParentId = the given permission-set id, in list order, and returns      *)
(* with no error; for the empty list it issues no call and returns.        *)
(***************************************************************************)
C4_AllSucceed ==
    (/\ IsSetFieldPermissions
     /\ op.args.access_level \in {"read", "edit"}
     /\ pc = "returned"
     /\ \A k \in 1..Len(calls) : ~Failed(calls[k].resp)) =>
        /\ outcome.kind = "return"
        /\ outcome.value = None
        /\ Len(calls) = Len(op.args.fields)
        /\ \A k \in 1..Len(calls) :
             /\ calls[k].verb = "create"
             /\ calls[k].type = "FieldPermissions"
             /\ calls[k].data.Field
                    = op.args.object_name \o "." \o op.args.fields[k]
             /\ calls[k].data.ParentId = op.args.permission_set_name
        /\ (op.args.object_name = "Contact" /\ op.args.fields = <<"Email", "Phone">>) =>
             /\ calls[1].data.Field
                    = "Contact.Email"
             /\ calls[2].data.Field
                    = "Contact.Phone"

C4_Witness ==
    /\ IsSetFieldPermissions
    /\ op.args.object_name = "Contact"
    /\ op.args.fields = <<"Email", "Phone">>
    /\ op.args.access_level = "edit"
    /\ outcome.kind = "return"
    /\ Len(calls) = 2

(***************************************************************************)
(* C5. Every FieldPermissions create call of set_field_permissions has     *)
(* PermissionsRead = true, and PermissionsEdit = true exactly when         *)
(* access_level is "edit"; no call with PermissionsRead = false is issued. *)
(***************************************************************************)
C5_ReadAlwaysEditOnlyForEdit ==
    IsSetFieldPermissions =>
        \A k \in 1..Len(calls) :
            /\ calls[k].data.PermissionsRead = TRUE
            /\ calls[k].data.PermissionsEdit = (op.args.access_level = "edit")

C5_Witness ==
    /\ IsSetFieldPermissions
    /\ op.args.access_level = "read"
    /\ Len(calls) = 2
    /\ calls[2].data.PermissionsRead
    /\ ~calls[2].data.PermissionsEdit

(***************************************************************************)
(* C6. create_permission_set issues exactly one PermissionSet create call  *)
(* with Name = "{object_name}_{record_type}_Permissions", Label =          *)
(* "{object_name} {record_type} Permissions" and a Description containing  *)
(* both object_name and record_type; when the response reports success it  *)
(* returns the id field of that response.                                  *)
(***************************************************************************)
C6_OneCreateReturnsId ==
    IsCreatePermissionSet =>
        /\ Len(calls) = 1
        /\ calls[1].verb = "create"
        /\ calls[1].type = "PermissionSet"
        /\ DOMAIN calls[1].data = {"Name", "Label", "Description"}
        /\ calls[1].data.Name
               = op.args.object_name \o "_" \o op.args.record_type
                     \o "_Permissions"
        /\ calls[1].data.Label
               = op.args.object_name \o " " \o op.args.record_type
                     \o " Permissions"
        /\ Contains(calls[1].data.Description, op.args.object_name)
        /\ Contains(calls[1].data.Description, op.args.record_type)
        /\ (op.args.object_name = "Account" /\ op.args.record_type = "edit") =>
             calls[1].data.Name
                 = "Account_edit_Permissions"
        /\ (calls[1].resp.kind = "result" /\ calls[1].resp.success) =>
             /\ outcome.kind = "return"
             /\ outcome.value = calls[1].resp.id

C6_Witness ==
    /\ IsCreatePermissionSet
    /\ op.args.object_name = "Account"
    /\ op.args.record_type = "edit"
    /\ calls[1].resp.success
    /\ outcome.kind = "return"
    /\ outcome.value = PyStrValue("0PS2")

(***************************************************************************)
(* C7. create_permission_set raises, and returns no identifier, whenever   *)
(* the response payload of its create call has success false; the raised   *)
(* error carries the payload's errors field, and no second create call is  *)
(* issued.                                                                 *)
(***************************************************************************)
C7_LogicalFailureRaises ==
    (/\ IsCreatePermissionSet
     /\ Len(calls) > 0
     /\ calls[1].resp.kind = "result"
     /\ ~calls[1].resp.success) =>
        /\ outcome.kind = "raise"
        /\ outcome.value = None
        /\ Contains(outcome.exc.msg, StrList(calls[1].resp.errors))
        /\ \A n \in 1..Len(calls[1].resp.errors) :
             Contains(outcome.exc.msg, calls[1].resp.errors[n])
        /\ Len(calls) = 1

C7_Witness ==
    /\ IsCreatePermissionSet
    /\ calls[1].resp.kind = "result"
    /\ ~calls[1].resp.success
    /\ calls[1].resp.errors = <<"DUP", "LIMIT">>
    /\ outcome.kind = "raise"

(***************************************************************************)
(* C8. create_edit_permission_set(sf, object_name) behaves as              *)
(* create_permission_set(sf, object_name, "edit") for every object_name    *)
(* and every remote response: the same single create call with the same    *)
(* payload, the same returned identifier on success, the same raised       *)
(* error on failure.                                                       *)
(***************************************************************************)
C8_EditIsCreateWithEdit ==
    op.name = "create_edit_permission_set" =>
        /\ Len(calls) = 1
        /\ Done(calls, log, outcome)
               = create_permission_set(op.args.object_name,
                                       "edit", calls[1].resp)
        /\ calls[1].data.Name
               = op.args.object_name
                     \o "_edit_Permissions"

C8_Witness ==
    /\ op.name = "create_edit_permission_set"
    /\ op.args.object_name = "Account"
    /\ outcome.kind = "return"
    /\ Len(calls) = 1

(***************************************************************************)
(* C9. connect makes exactly one authentication attempt and either         *)
(* returns the session that attempt produced or propagates the             *)
(* authenticator's error unchanged; it never retries and never returns a   *)
(* session after a failed attempt.                                         *)
(***************************************************************************)
C9_ConnectOneAttempt ==
    op.name = "connect_to_salesforce" =>
        /\ Len(calls) = 1
        /\ calls[1].verb = "authenticate"
        /\ calls[1].data = op.args
        /\ calls[1].resp.kind = "session" =>
             outcome = Returned(calls[1].resp.session)
        /\ calls[1].resp.kind = "raise" =>
             /\ outcome.kind = "raise"
             /\ outcome.exc = calls[1].resp.exc
             /\ outcome.value = None

C9_Witness ==
    /\ op.name = "connect_to_salesforce"
    /\ Len(calls) = 1
    /\ calls[1].resp.kind = "raise"
    /\ outcome.kind = "raise"
    /\ outcome.exc.type = "SalesforceAuthenticationFailed"

(***************************************************************************)
(* C10. The helper retains no state between calls and de-duplicates        *)
(* nothing: every create_permission_set call issues its own create call    *)
(* whatever the earlier calls were, so two calls with the same             *)
(* (object_name, record_type) send two identical payloads, and a call      *)
(* fails only when the remote side reports a failure.                      *)
(***************************************************************************)
C10_NoDeduplication ==
    [][(pc = "ready" /\ op'.name = "create_permission_set") =>
          /\ Len(calls') = 1
          /\ remote' = Append(remote, calls'[1].data)
          /\ calls'[1].data.Name
                 = op'.args.object_name \o "_" \o op'.args.record_type
                       \o "_Permissions"
          /\ outcome'.kind = "raise" => Failed(calls'[1].resp)]_vars

C10_Witness ==
    /\ IsCreatePermissionSet
    /\ Len(remote) = 2
    /\ remote[1] = remote[2]
    /\ remote[2] = calls[1].data
    /\ outcome.kind = "return"

=============================================================================
